---- MODULE Spec2Model ----
(***************************************************************************)
(* Vector similarity search over a ClickHouse table: the brute-force       *)
(* searcher, the Faiss flat and IVFFlat searchers, and the upload path.    *)
(*                                                                         *)
(* Numbers: coordinates are small integers (exactly representable as       *)
(* float32 and float64).  A distance is kept in hundredths, rounded down:  *)
(* euclidean_distance = floor(100 * sqrt(sum of squares)).  On the sums    *)
(* the model reaches (below 2500) this is strictly increasing, so two      *)
(* distances are equal in the model exactly when numpy's are.              *)
(***************************************************************************)
EXTENDS Integers, Sequences, FiniteSets, TLC

\* ------------------------------------------------------------------ bounds
\* most records a store holds
MaxStore == 2
\* most query vectors in one batch
MaxQueries == 2
\* largest count (k) asked for; -1 is also drawn
MaxCount == 3

\* document identifiers, in Python's string order
IdOrder == <<"a", "b", "c">>
DocIds == {IdOrder[i] : i \in 1..Len(IdOrder)}
IdRank(id) == CHOOSE i \in 1..Len(IdOrder) : IdOrder[i] = id
\* the vectors stored and asked for: three of length 2 (two of them at one
\* distance from the third), one of length 1 (it broadcasts) and one of
\* length 3 (it does not broadcast against length 2)
Vectors == {<<0, 0>>, <<0, 1>>, <<1, 0>>, <<1>>, <<0, 0, 1>>}
Counts == (-1)..MaxCount

\* ----------------------------------------------------------------- helpers
Min(a, b) == IF a <= b THEN a ELSE b
Max(a, b) == IF a >= b THEN a ELSE b
Range(s) == {s[i] : i \in DOMAIN s}
Last(s) == s[Len(s)]
Front(s) == SubSeq(s, 1, Len(s) - 1)

\* a slice that keeps one element too many: seq[:count + 1]
SliceToOneMore(s, count) == SubSeq(s, 1, Min(Max(count, 0) + 1, Len(s)))

\* Python's seq[:count]: a negative count drops the last -count elements
SliceTo(s, count) ==
    IF count >= 0 THEN SubSeq(s, 1, Min(count, Len(s)))
    ELSE SubSeq(s, 1, Max(Len(s) + count, 0))

RECURSIVE ISqrtIn(_, _, _)
ISqrtIn(n, lo, hi) ==
    IF lo >= hi THEN lo
    ELSE LET mid == (lo + hi + 1) \div 2
         IN IF mid * mid <= n THEN ISqrtIn(n, mid, hi) ELSE ISqrtIn(n, lo, mid - 1)
\* np.sqrt, in hundredths rounded down
Sqrt(x) == ISqrtIn(x * 10000, 0, Min(x * 10000, 46340))

\* numpy broadcasting of two 1-d arrays: equal lengths, or one of length 1
Broadcastable(a, b) == Len(a) = Len(b) \/ Len(a) = 1 \/ Len(b) = 1
BroadcastLen(a, b) == IF Len(a) = 1 THEN Len(b) ELSE Len(a)
Elem(v, i) == IF Len(v) = 1 THEN v[1] ELSE v[i]

RECURSIVE SumSqTo(_, _, _)
SumSqTo(a, b, n) ==
    IF n = 0 THEN 0
    ELSE SumSqTo(a, b, n - 1) + (Elem(a, n) - Elem(b, n)) * (Elem(a, n) - Elem(b, n))
\* np.sum((a - b) ** 2), defined when a and b broadcast
SumSq(a, b) == SumSqTo(a, b, BroadcastLen(a, b))

\* VectorSearcher.euclidean_distance: np.sqrt(np.sum((a - b) ** 2))
euclidean_distance(a, b) == Sqrt(SumSq(a, b))

\* sorted(similarities, key=lambda x: x[1]): a stable sort on the distance
RECURSIVE InsertByDist(_, _)
InsertByDist(s, x) ==
    IF s = <<>> THEN <<x>>
    ELSE IF Last(s).dist <= x.dist THEN Append(s, x)
    ELSE Append(InsertByDist(Front(s), x), Last(s))
RECURSIVE sorted(_)
sorted(s) ==
    IF s = <<>> THEN <<>>
    ELSE InsertByDist(sorted(Front(s)), Last(s))

\* ------------------------------------------------- brute-force searcher
\* the list comprehension over vectors_index.items(), in dict order
similarities(vectors_index, q) ==
    [i \in 1..Len(vectors_index) |->
        [id |-> vectors_index[i].id,
         dist |-> euclidean_distance(q, vectors_index[i].vec)]]

\* a - b raises ValueError for some stored vector
QueryRaises(vectors_index, q) ==
    \E i \in 1..Len(vectors_index) : ~Broadcastable(q, vectors_index[i].vec)

\* VectorSearcher.search_similar of search_1.py and search_Euclidean_Distance.py.
\* The returned dict is a function on the keys 0..m-1.
search_similar(vectors_index, input_vectors, count) ==
    IF vectors_index = <<>>
    THEN [raised |-> FALSE, error |-> "", value |-> <<>>]
    ELSE IF \E q \in 1..Len(input_vectors) : QueryRaises(vectors_index, input_vectors[q])
    THEN [raised |-> TRUE, error |-> "ValueError", value |-> <<>>]
    ELSE [raised |-> FALSE, error |-> "",
          value |-> [idx \in 0..(Len(input_vectors) - 1) |->
                        SliceTo(sorted(similarities(vectors_index, input_vectors[idx + 1])),
                                count)]]

\* ------------------------------------------------------- Faiss searchers
\* largest nlist / nprobe given to the IVFFlat constructor
MaxNlist == 2
\* np.sqrt of the distance faiss reports for a neighbour it did not find
\* (FLT_MAX), far above every real distance
FLT_MAX_SQRT == 2000000000

\* dtype="float32": exact up to 2^24, then rounded to a multiple of 2
Float32(x) == IF x <= 16777216 /\ x >= -16777216 THEN x ELSE 2 * (x \div 2)
AsFloat32(v) == [i \in 1..Len(v) |-> Float32(v[i])]

\* np.array(list(vectors_index.values())) is 2-d only when all rows have one length
Homogeneous(vectors_index) ==
    \A i, j \in 1..Len(vectors_index) :
        Len(vectors_index[i].vec) = Len(vectors_index[j].vec)

\* doc_ids[label]: a numpy index, so label -1 is the last element
PyIndex(s, label) == IF label >= 0 THEN s[label + 1] ELSE s[Len(s) + label + 1]

\* index.search on one query over the candidate positions cand (0-based):
\* the label rows faiss may return, nearest first, equal distances in an
\* order the library does not define, -1 where fewer than k were found.
FaissLabels(db_vectors, cand, q, k) ==
    LET kk == Min(k, Cardinality(cand))
        d(p) == SumSq(q, db_vectors[p + 1])
        found == {r \in [1..kk -> cand] :
                    /\ \A i, j \in 1..kk : i < j => (r[i] # r[j] /\ d(r[i]) <= d(r[j]))
                    /\ \A p \in cand \ Range(r) : \A i \in 1..kk : d(r[i]) <= d(p)}
    IN {[i \in 1..k |-> IF i <= kk THEN r[i] ELSE -1] : r \in found}

\* the list built from one row of labels: (doc_ids[label], sqrt(distance))
FaissRow(doc_ids, db_vectors, q, labels, count) ==
    [i \in 1..count |->
        [id |-> PyIndex(doc_ids, labels[i]),
         dist |-> IF labels[i] = -1 THEN FLT_MAX_SQRT
                  ELSE Sqrt(SumSq(q, db_vectors[labels[i] + 1]))]]

\* the assert of index.search: the query has the index's dimension and k > 0
FaissSearchRaises(d, input_vectors, count) ==
    /\ input_vectors # <<>>
    /\ (count <= 0 \/ \E i \in 1..Len(input_vectors) : Len(input_vectors[i]) # d)

\* quantizer.assign: the nearest centroid, the lowest cluster on a tie
NearestCluster(db_vectors, centroids, v) ==
    CHOOSE c \in 1..Len(centroids) :
        \A c2 \in 1..Len(centroids) :
            \/ SumSq(v, db_vectors[centroids[c] + 1]) < SumSq(v, db_vectors[centroids[c2] + 1])
            \/ (SumSq(v, db_vectors[centroids[c] + 1]) = SumSq(v, db_vectors[centroids[c2] + 1])
                /\ c <= c2)

\* the clusters one query scans: the nprobe nearest centroids (faiss caps
\* nprobe at nlist), any choice among centroids at equal distance
ProbedClusters(db_vectors, centroids, q, nprobe) ==
    LET np == Min(nprobe, Len(centroids))
        d(c) == SumSq(q, db_vectors[centroids[c] + 1])
    IN {S \in SUBSET (1..Len(centroids)) :
            /\ Cardinality(S) = np
            /\ \A c \in S : \A c2 \in (1..Len(centroids)) \ S : d(c) <= d(c2)}

\* --------------------------------------------------------------- state
VARIABLES
    vectors_index,  \* the dict handed to a searcher: <<[id, vec], ...>> in dict order
    pc,             \* where the search program is
    searcher,       \* the Faiss VectorSearcher object under construction or built
    call,           \* the search_similar call made: strategy, input_vectors, count
    ret,            \* what the last constructor or search_similar call gave back
    table,          \* the rows of the ClickHouse table, in storage order
    data_to_load,   \* what FileLoader.load returned last
    upload_pc,      \* where the upload is: "idle", "loaded", "inserted"
    insert_ret,     \* how the last insert_data call ended
    fetched,        \* what the last get_vectors call read and returned
    bench,          \* the benchmark harness of test.py: its position and its lists
    file_input,     \* the input file FileLoader.load was given last
    catalog,        \* the server's databases, and the tables of the manager's database
    manager,        \* the check_db calls made: how many, and how the last one went
    gen,            \* VectorGenerator.generate: its position and its locals
    upload_main,    \* the last run of upload.main: how far it got
    batch           \* one search_similar_vectors call, query by query

searchVars == <<vectors_index, pc, searcher, call, ret>>
dbVars == <<table, data_to_load, upload_pc, insert_ret, fetched>>
restVars == <<gen, upload_main, batch>>
otherVars == <<bench, file_input, catalog, manager, restVars>>
vars == <<vectors_index, pc, searcher, call, ret,
          table, data_to_load, upload_pc, insert_ret, fetched, bench, file_input,
          catalog, manager, gen, upload_main, batch>>

NoSearcher ==
    [kind |-> "none", state |-> "none", doc_ids |-> <<>>, db_vectors |-> <<>>,
     d |-> 0, nlist |-> 0, nprobe |-> 0, nprobe_arg |-> 0,
     centroids |-> <<>>, invlists |-> <<>>, ntotal |-> 0,
     \* history, not a field of the object: the index held the records of the
     \* table at the moment it became ready
     built_current |-> FALSE]
NoCall == [strategy |-> "none", input_vectors |-> <<>>, count |-> 0]
NoRet == [outcome |-> "none", error |-> "", value |-> <<>>]
Raised(e) == [outcome |-> "raised", error |-> e, value |-> <<>>]
Returned(v) == [outcome |-> "returned", error |-> "", value |-> v]

\* no search_similar_vectors call is under way
NoBatch == [pc |-> "idle", strategy |-> "none", input_vectors |-> <<>>, count |-> 0,
            all_results |-> <<>>, seen |-> <<>>, value |-> <<>>, error |-> "",
            discarded |-> 0]

\* upload.main has not run yet
NoMain == [pc |-> "none", connected |-> FALSE, error |-> "", loaded |-> FALSE,
           data |-> <<>>, insert_called |-> FALSE]

\* no generator has been made yet
NoGen == [pc |-> "new", count |-> 0, size |-> 0, existing_uuids |-> {},
          elements |-> <<>>, id_uuid |-> "", error |-> ""]

\* a server without the manager's database; no check_db call made yet
NoCatalog == [databases |-> {}, tables |-> {}]
NoManager == [calls |-> 0, returned |-> "none", executed |-> <<>>, failed |-> FALSE,
              prev_executed |-> <<>>, prev_failed |-> FALSE]

\* method1 .. method5 of test.py
Methods == 1..5
\* the harness before it has read its input
NoSample == [time |-> 0, mem |-> 0, completed |-> FALSE]
NoBench ==
    [pc |-> "import", n_runs |-> 0, run |-> 0, method |-> 0, running |-> 0,
     calls |-> 0, sample |-> NoSample, error |-> "",
     times |-> [i \in Methods |-> <<>>], mems |-> [i \in Methods |-> <<>>],
     \* history, not a list of the harness: whether the run behind each sample
     \* completed its search
     completed |-> [i \in Methods |-> <<>>],
     avg_time |-> [i \in Methods |-> 0], avg_mem |-> [i \in Methods |-> 0]]

\* the dicts a searcher may be given: distinct keys, any order
Rows == [id : DocIds, vec : Vectors]
Stores ==
    {s \in UNION {[1..n -> Rows] : n \in 0..MaxStore} :
        \A i, j \in 1..Len(s) : i # j => s[i].id # s[j].id}
QueryBatches == UNION {[1..m -> Vectors] : m \in 0..MaxQueries}

\* str(row[0]): the lower-case spelling of the UUID
Str(uuid) == uuid
\* {str(row[0]): np.array(row[1]) for row in result}: a key keeps the place
\* of its first row and the vector of its last row
RECURSIVE DictOf(_)
DictOf(result) ==
    IF result = <<>> THEN <<>>
    ELSE LET d == DictOf(Front(result))
             row == [id |-> Str(Last(result).id), vec |-> Last(result).vec]
         IN IF \E i \in 1..Len(d) : d[i].id = row.id
            THEN [i \in 1..Len(d) |-> IF d[i].id = row.id THEN row ELSE d[i]]
            ELSE Append(d, row)

\* the records a Faiss searcher holds: doc_ids and db_vectors, row by row
IndexedRecords(s) ==
    [i \in 1..Len(s.doc_ids) |-> [id |-> s.doc_ids[i], vec |-> s.db_vectors[i]]]
\* the records of the table as a fetch would give them to a Faiss searcher now
CurrentRecords ==
    LET d == DictOf(table)
    IN [i \in 1..Len(d) |-> [id |-> d[i].id, vec |-> AsFloat32(d[i].vec)]]

\* ------------------------------------------------- brute-force actions
\* a search that consumes its argument: the ranked records are popped from
\* vectors_index
Brute_search_similar_popping(input_vectors, count) ==
    /\ pc = "start"
    /\ LET r == search_similar(vectors_index, input_vectors, count)
       IN ret' = IF r.raised THEN Raised(r.error) ELSE Returned(r.value)
    /\ call' = [strategy |-> "brute", input_vectors |-> input_vectors, count |-> count]
    /\ pc' = "done"
    /\ vectors_index' = SubSeq(vectors_index, Min(Max(count, 0), Len(vectors_index)) + 1,
                               Len(vectors_index))
    /\ UNCHANGED searcher
    /\ UNCHANGED dbVars
    /\ UNCHANGED otherVars

\* searcher = VectorSearcher(); searcher.search_similar(vectors_db, input_vectors, count)
Brute_search_similar(input_vectors, count) ==
    /\ pc = "start"
    /\ LET r == search_similar(vectors_index, input_vectors, count)
       IN ret' = IF r.raised THEN Raised(r.error) ELSE Returned(r.value)
    /\ call' = [strategy |-> "brute", input_vectors |-> input_vectors, count |-> count]
    /\ pc' = "done"
    /\ UNCHANGED <<vectors_index, searcher>>
    /\ UNCHANGED dbVars
    /\ UNCHANGED otherVars

\* ------------------------------------------------------ Faiss actions
\* the candidate sets one query may be answered from
Candidates(s, q) ==
    IF s.kind = "flat" THEN {0..(Len(s.db_vectors) - 1)}
    ELSE {UNION {s.invlists[c] : c \in S} :
            S \in ProbedClusters(s.db_vectors, s.centroids, q, s.nprobe)}

\* the lists search_similar may build for one query
FaissRows(s, q, count) ==
    {FaissRow(s.doc_ids, s.db_vectors, q, labels, count) :
        labels \in UNION {FaissLabels(s.db_vectors, cand, q, count) :
                            cand \in Candidates(s, q)}}

\* the lists search_similar may build for the first i queries, in order
RECURSIVE FaissRowSeqs(_, _, _, _)
FaissRowSeqs(s, input_vectors, count, i) ==
    IF i = 0 THEN {<<>>}
    ELSE {Append(p, r) :
            p \in FaissRowSeqs(s, input_vectors, count, i - 1),
            r \in FaissRows(s, AsFloat32(input_vectors[i]), count)}

\* VectorSearcher.search_similar of search_2.py and search_Faiss_IndexIVFFlat.py:
\* every value the call may give back (the dict has the keys 0..m-1)
Faiss_search_similar(s, input_vectors, count) ==
    IF FaissSearchRaises(s.d, input_vectors, count)
    THEN {Raised("AssertionError")}
    ELSE {Returned([idx \in 0..(Len(input_vectors) - 1) |-> p[idx + 1]]) :
            p \in FaissRowSeqs(s, input_vectors, count, Len(input_vectors))}

\* search_2.py VectorSearcher.__init__: IndexFlatL2, no training
Flat_init ==
    /\ pc = "start"
    /\ IF vectors_index = <<>> \/ ~Homogeneous(vectors_index)
       THEN /\ ret' = Raised("ValueError")
            /\ pc' = "failed"
            /\ UNCHANGED searcher
       ELSE /\ searcher' =
                [NoSearcher EXCEPT
                    !.kind = "flat", !.state = "ready",
                    !.doc_ids = [i \in 1..Len(vectors_index) |-> vectors_index[i].id],
                    !.db_vectors = [i \in 1..Len(vectors_index) |->
                                        AsFloat32(vectors_index[i].vec)],
                    !.d = Len(vectors_index[1].vec),
                    !.ntotal = Len(vectors_index),
                    !.built_current = (vectors_index = DictOf(table))]
            /\ pc' = "flat_ready"
            /\ UNCHANGED ret
    /\ UNCHANGED <<vectors_index, call>>
    /\ UNCHANGED dbVars
    /\ UNCHANGED otherVars

Flat_search_similar(input_vectors, count) ==
    /\ pc = "flat_ready"
    /\ ret' \in Faiss_search_similar(searcher, input_vectors, count)
    /\ call' = [strategy |-> "flat", input_vectors |-> input_vectors, count |-> count]
    /\ pc' = "done"
    /\ UNCHANGED <<vectors_index, searcher>>
    /\ UNCHANGED dbVars
    /\ UNCHANGED otherVars

\* search_Faiss_IndexIVFFlat.py VectorSearcher.__init__, lines 66-76:
\* the empty check, the arrays, the untrained index (faiss starts nprobe at 1)
IVF_init(nlist, nprobe) ==
    /\ pc = "start"
    /\ IF vectors_index = <<>> \/ ~Homogeneous(vectors_index)
       THEN /\ ret' = Raised("ValueError")
            /\ pc' = "failed"
            /\ searcher' = [NoSearcher EXCEPT !.kind = "ivf", !.nlist = nlist,
                                              !.nprobe_arg = nprobe]
       ELSE /\ searcher' =
                [NoSearcher EXCEPT
                    !.kind = "ivf", !.state = "untrained",
                    !.doc_ids = [i \in 1..Len(vectors_index) |-> vectors_index[i].id],
                    !.db_vectors = [i \in 1..Len(vectors_index) |->
                                        AsFloat32(vectors_index[i].vec)],
                    !.d = Len(vectors_index[1].vec),
                    !.nlist = nlist, !.nprobe = 1, !.nprobe_arg = nprobe]
            /\ pc' = "ivf_untrained"
            /\ UNCHANGED ret
    /\ UNCHANGED <<vectors_index, call>>
    /\ UNCHANGED dbVars
    /\ UNCHANGED otherVars

\* the centroid rows k-means may settle on: nlist distinct training points
\* (their positions, in increasing order)
CentroidChoices(n, nlist) ==
    {c \in [1..nlist -> 0..(n - 1)] : \A i, j \in 1..nlist : i < j => c[i] < c[j]}

\* a training that does not refuse: too few points are reused as centroids
IVF_train_no_check ==
    /\ pc = "ivf_untrained"
    /\ \E c \in [1..searcher.nlist -> 0..(Len(searcher.db_vectors) - 1)] :
            searcher' = [searcher EXCEPT !.state = "trained", !.centroids = c]
    /\ pc' = "ivf_trained"
    /\ UNCHANGED <<vectors_index, call, ret>>
    /\ UNCHANGED dbVars
    /\ UNCHANGED otherVars

\* self.index.train(self.db_vectors): faiss refuses fewer points than clusters
IVF_train ==
    /\ pc = "ivf_untrained"
    /\ IF Len(searcher.db_vectors) < searcher.nlist
       THEN /\ ret' = Raised("RuntimeError")
            /\ pc' = "failed"
            /\ UNCHANGED searcher
       ELSE /\ \E c \in CentroidChoices(Len(searcher.db_vectors), searcher.nlist) :
                searcher' = [searcher EXCEPT !.state = "trained", !.centroids = c]
            /\ pc' = "ivf_trained"
            /\ UNCHANGED ret
    /\ UNCHANGED <<vectors_index, call>>
    /\ UNCHANGED dbVars
    /\ UNCHANGED otherVars

\* an add that stores nothing: the index counts as populated while it is empty
IVF_add_nothing ==
    /\ pc = "ivf_trained"
    /\ searcher' = [searcher EXCEPT !.state = "populated",
                                    !.invlists = [c \in 1..searcher.nlist |-> {}]]
    /\ pc' = "ivf_populated"
    /\ UNCHANGED <<vectors_index, call, ret>>
    /\ UNCHANGED dbVars
    /\ UNCHANGED otherVars

\* self.index.add(self.db_vectors): every vector goes to its nearest centroid
IVF_add ==
    /\ pc = "ivf_trained"
    /\ searcher' =
        [searcher EXCEPT
            !.state = "populated",
            !.ntotal = Len(searcher.db_vectors),
            !.invlists = [c \in 1..searcher.nlist |->
                {p \in 0..(Len(searcher.db_vectors) - 1) :
                    NearestCluster(searcher.db_vectors, searcher.centroids,
                                   searcher.db_vectors[p + 1]) = c}]]
    /\ pc' = "ivf_populated"
    /\ UNCHANGED <<vectors_index, call, ret>>
    /\ UNCHANGED dbVars
    /\ UNCHANGED otherVars

\* self.index.nprobe = nlist, the last statement of __init__
IVF_set_nprobe ==
    /\ pc = "ivf_populated"
    /\ searcher' = [searcher EXCEPT !.state = "ready", !.nprobe = searcher.nlist,
                                    !.built_current =
                                        (IndexedRecords(searcher) = CurrentRecords)]
    /\ pc' = "ivf_ready"
    /\ UNCHANGED <<vectors_index, call, ret>>
    /\ UNCHANGED dbVars
    /\ UNCHANGED otherVars

IVF_search_similar(input_vectors, count) ==
    /\ pc = "ivf_ready"
    /\ ret' \in Faiss_search_similar(searcher, input_vectors, count)
    /\ call' = [strategy |-> "ivf", input_vectors |-> input_vectors, count |-> count]
    /\ pc' = "done"
    /\ UNCHANGED <<vectors_index, searcher>>
    /\ UNCHANGED dbVars
    /\ UNCHANGED otherVars

\* ------------------------------------------------ the table and upload
\* most rows the table holds, most elements in one input file
MaxRows == 2
MaxBatch == 2

\* identifiers as written in an input file; "A" is another spelling of the
\* UUID "a".  The doc_id column is a UUID: the table keeps the UUID.
FileIds == {"a", "A", "b"}
UUID(id) == IF id = "A" THEN "a" ELSE id
FileVectors == {<<0, 0>>, <<0, 1>>, <<1>>}

NoInsert == [outcome |-> "none", into_empty |-> FALSE]
NoFetch == [outcome |-> "none", result |-> <<>>, value |-> <<>>, is_none |-> FALSE]

\* the elements of a JSON input file; has_id / has_vector: the key is there
Elements == [id : FileIds, vec : FileVectors, has_id : {TRUE}, has_vector : {TRUE}]
                \cup [id : {"a"}, vec : {<<0, 0>>}, has_id : {FALSE}, has_vector : {TRUE}]
                \cup [id : {"a"}, vec : {<<0, 0>>}, has_id : {TRUE}, has_vector : {FALSE}]
Files ==
    [kind : {"missing", "empty", "badjson"}, elements : {<<>>}]
        \cup [kind : {"json"}, elements : UNION {[1..n -> Elements] : n \in 0..MaxBatch}]

\* no file has been named yet
NoFile == [kind |-> "missing", elements |-> <<>>]

\* the for loop of FileLoader.load: a KeyError ends it, what was appended stays
RECURSIVE LoadElements(_)
LoadElements(elements) ==
    IF elements = <<>> THEN <<>>
    ELSE IF ~elements[1].has_id \/ ~elements[1].has_vector THEN <<>>
    ELSE <<[id |-> elements[1].id, vec |-> elements[1].vec]>>
            \o LoadElements(Tail(elements))

\* FileLoader.load
load(file) ==
    IF file.kind \in {"missing", "empty", "badjson"} THEN <<>>
    ELSE LoadElements(file.elements)

\* the rows one INSERT appends: the column types convert each value
InsertedRows(data) == [i \in 1..Len(data) |-> [id |-> UUID(data[i].id), vec |-> data[i].vec]]

FileLoader_load(file) ==
    /\ upload_pc \in {"idle", "inserted"}
    /\ file_input' = file
    /\ data_to_load' = load(file)
    /\ upload_pc' = "loaded"
    /\ UNCHANGED <<table, insert_ret, fetched>>
    /\ UNCHANGED searchVars
    /\ UNCHANGED <<bench, catalog, manager, restVars>>

\* an insert_data that sends the INSERT also when data is empty
DatabaseUploader_insert_data_always(execute) ==
    /\ upload_pc = "loaded"
    /\ Len(table) + Len(data_to_load) <= MaxRows
    /\ IF execute = "ok"
       THEN /\ table' = table \o InsertedRows(data_to_load)
            /\ insert_ret' = [outcome |-> "inserted", into_empty |-> table = <<>>]
       ELSE /\ insert_ret' = [outcome |-> IF execute = "ServerException"
                                          THEN "logged" ELSE "raised",
                              into_empty |-> table = <<>>]
            /\ UNCHANGED table
    /\ upload_pc' = "inserted"
    /\ UNCHANGED <<data_to_load, fetched>>
    /\ UNCHANGED searchVars
    /\ UNCHANGED otherVars

\* DatabaseUploader.insert_data(database, table, data) on the loaded data;
\* execute is what the server does with the INSERT: "ok", a ServerException
\* (caught and logged) or another driver error (not caught here)
DatabaseUploader_insert_data(execute) ==
    /\ upload_pc = "loaded"
    /\ Len(table) + Len(data_to_load) <= MaxRows
    /\ IF data_to_load = <<>>
       THEN /\ insert_ret' = [outcome |-> "no_data", into_empty |-> table = <<>>]
            /\ UNCHANGED table
       ELSE IF execute = "ok"
       THEN /\ table' = table \o InsertedRows(data_to_load)
            /\ insert_ret' = [outcome |-> "inserted", into_empty |-> table = <<>>]
       ELSE /\ insert_ret' = [outcome |-> IF execute = "ServerException"
                                          THEN "logged" ELSE "raised",
                              into_empty |-> table = <<>>]
            /\ UNCHANGED table
    /\ upload_pc' = "inserted"
    /\ UNCHANGED <<data_to_load, fetched>>
    /\ UNCHANGED searchVars
    /\ UNCHANGED otherVars

\* ClickHouseRepository.get_vectors; optional: the variant of search_2.py and
\* search_Faiss_IndexIVFFlat.py, which returns None where the others return {}
get_vectors(optional, fails) ==
    IF fails
    THEN [outcome |-> "error", result |-> <<>>, value |-> <<>>, is_none |-> optional]
    ELSE [outcome |-> "ok", result |-> table, value |-> DictOf(table),
          is_none |-> FALSE]

ClickHouseRepository_get_vectors(optional, fails) ==
    /\ fetched' = get_vectors(optional, fails)
    /\ UNCHANGED <<table, data_to_load, upload_pc, insert_ret>>
    /\ UNCHANGED searchVars
    /\ UNCHANGED otherVars

Init ==
    /\ vectors_index = <<>>
    /\ pc = "start"
    /\ searcher = NoSearcher
    /\ call = NoCall
    /\ ret = NoRet
    /\ table = <<>>
    /\ data_to_load = <<>>
    /\ upload_pc = "idle"
    /\ insert_ret = NoInsert
    /\ fetched = NoFetch
    /\ bench = NoBench
    /\ file_input = NoFile
    /\ catalog = NoCatalog
    /\ manager = NoManager
    /\ gen = NoGen
    /\ upload_main = NoMain
    /\ batch = NoBatch

Next ==
    \/ upload_pc \in {"idle", "inserted"} /\ \E file \in Files : FileLoader_load(file)
    \/ \E execute \in {"ok", "ServerException", "NetworkError"} :
            DatabaseUploader_insert_data(execute)
    \/ \E optional \in BOOLEAN, fails \in BOOLEAN :
            ClickHouseRepository_get_vectors(optional, fails)

Spec == Init /\ [][Next]_vars

\* ------------------------------------------ the loader on longer files
\* most elements in one input file of the loader's specification
MaxFile == 3
\* two well-formed elements, one without "id", one without "vector"
LoaderElements == {e \in Elements : e.id \in {"a", "b"} /\ e.vec = <<0, 0>>}
LoaderFiles ==
    [kind : {"json"}, elements : UNION {[1..n -> LoaderElements] : n \in 0..MaxFile}]

\* main of upload.py, lines 140-142: data = FileLoader.load(file_input), then
\* insert_data(data) when data is not empty
NextLoad ==
    \/ upload_pc \in {"idle", "inserted"}
            /\ \E file \in LoaderFiles : FileLoader_load(file)
    \/ \E execute \in {"ok", "ServerException", "NetworkError"} :
            DatabaseUploader_insert_data(execute)

SpecLoad == Init /\ [][NextLoad]_vars

\* the same two calls on files of every kind that hold at most one element
SmallFiles == {f \in Files : Len(f.elements) <= 1}

NextUpload ==
    \/ upload_pc \in {"idle", "inserted"}
            /\ \E file \in SmallFiles : FileLoader_load(file)
    \/ \E execute \in {"ok", "ServerException", "NetworkError"} :
            DatabaseUploader_insert_data(execute)

SpecUpload == Init /\ [][NextUpload]_vars

\* ------------------------------------------- the searchers' specification
InitSearch ==
    /\ vectors_index \in Stores
    /\ pc = "start"
    /\ searcher = NoSearcher
    /\ call = NoCall
    /\ ret = NoRet
    /\ table = <<>>
    /\ data_to_load = <<>>
    /\ upload_pc = "idle"
    /\ insert_ret = NoInsert
    /\ fetched = NoFetch
    /\ bench = NoBench
    /\ file_input = NoFile
    /\ catalog = NoCatalog
    /\ manager = NoManager
    /\ gen = NoGen
    /\ upload_main = NoMain
    /\ batch = NoBatch

NextSearch ==
    \/ pc = "start" /\ \E q \in QueryBatches, k \in Counts : Brute_search_similar(q, k)
    \/ Flat_init
    \/ pc = "flat_ready"
            /\ \E q \in QueryBatches, k \in Counts : Flat_search_similar(q, k)
    \/ pc = "start"
            /\ \E nlist \in 1..MaxNlist, nprobe \in 1..MaxNlist : IVF_init(nlist, nprobe)
    \/ IVF_train
    \/ IVF_add
    \/ IVF_set_nprobe
    \/ pc = "ivf_ready"
            /\ \E q \in QueryBatches, k \in Counts : IVF_search_similar(q, k)

SpecSearch == InitSearch /\ [][NextSearch]_vars

\* the brute-force searcher alone
NextBrute ==
    pc = "start" /\ \E q \in QueryBatches, k \in Counts : Brute_search_similar(q, k)

SpecBrute == InitSearch /\ [][NextBrute]_vars

\* ------------------------------- searches against a table that is written
\* input files of one well-formed element, its identifier in lower case
LiveFiles == {f \in Files : f.kind = "json" /\ Len(f.elements) = 1
                              /\ f.elements[1].has_id /\ f.elements[1].has_vector
                              /\ UUID(f.elements[1].id) = f.elements[1].id}
\* query batches of at most one vector
LiveBatches == {b \in QueryBatches : Len(b) <= 1}

\* main of the in-memory search programs, its first statement:
\* vectors_db = db.get_vectors(args.table, args.ids, args.vectors);
\* the None of a failed fetch is as empty as {} to "if not vectors_index"
Main_get_vectors(optional, fails) ==
    /\ pc = "start"
    /\ fetched.outcome = "none"
    /\ fetched' = get_vectors(optional, fails)
    /\ vectors_index' = fetched'.value
    /\ UNCHANGED <<pc, searcher, call, ret>>
    /\ UNCHANGED <<table, data_to_load, upload_pc, insert_ret>>
    /\ UNCHANGED otherVars

\* the rows one SEARCH_SIMILAR query may give back: the min(count, rows)
\* nearest, ORDER BY distance leaving rows at one distance in any order
QueryResults(rows, q, count) ==
    LET vecs == [i \in 1..Len(rows) |-> rows[i].vec]
        k == Min(count, Len(rows))
    IN {[i \in 1..k |-> [id |-> rows[labels[i] + 1].id,
                          dist |-> Sqrt(SumSq(q, vecs[labels[i] + 1]))]] :
            labels \in FaissLabels(vecs, 0..(Len(rows) - 1), q, k)}

\* L2Distance throws on arrays of different sizes
QueryThrows(rows, q) == \E i \in 1..Len(rows) : Len(rows[i].vec) # Len(q)

\* the all_results lists the loop may build for the first i queries
RECURSIVE AllResults(_, _, _, _)
AllResults(rows, input_vectors, count, i) ==
    IF i = 0 THEN {<<>>}
    ELSE {Append(p, [index |-> i, result |-> r]) :
            p \in AllResults(rows, input_vectors, count, i - 1),
            r \in QueryResults(rows, input_vectors[i], count)}

\* ClickHouseRepository.search_similar_vectors of search_3.py: an exception of
\* any query (the server's or the driver's) is logged and [] is returned;
\* ret.error keeps what was logged
ClickHouseRepository_search_similar_vectors(input_vectors, count, fails) ==
    /\ pc = "start"
    /\ fetched.outcome = "none"
    /\ IF input_vectors # <<>>
            /\ (fails \/ \E i \in 1..Len(input_vectors) : QueryThrows(table, input_vectors[i]))
       THEN ret' = [outcome |-> "returned", error |-> "Exception", value |-> <<>>]
       ELSE ret' \in {Returned(v) :
                        v \in AllResults(table, input_vectors, count, Len(input_vectors))}
    /\ call' = [strategy |-> "clickhouse", input_vectors |-> input_vectors, count |-> count]
    /\ pc' = "done"
    /\ UNCHANGED <<vectors_index, searcher>>
    /\ UNCHANGED dbVars
    /\ UNCHANGED otherVars

\* an upload running beside one search program
NextLive ==
    \/ upload_pc \in {"idle", "inserted"} /\ \E file \in LiveFiles : FileLoader_load(file)
    \/ DatabaseUploader_insert_data("ok")
    \/ \E optional \in BOOLEAN, fails \in BOOLEAN : Main_get_vectors(optional, fails)
    \/ (pc = "start" /\ fetched.outcome # "none" /\ ~fetched.is_none)
            /\ \E q \in LiveBatches, k \in Counts : Brute_search_similar(q, k)
    \/ (fetched.outcome # "none" /\ (fetched.outcome = "error" => fetched.is_none))
            /\ Flat_init
    \/ pc = "flat_ready"
            /\ \E q \in LiveBatches, k \in Counts : Flat_search_similar(q, k)
    \/ (pc = "start" /\ fetched.outcome # "none"
                /\ (fetched.outcome = "error" => fetched.is_none))
            /\ \E nlist \in 1..MaxNlist : IVF_init(nlist, nlist)
    \/ IVF_train
    \/ IVF_add
    \/ IVF_set_nprobe
    \/ pc = "ivf_ready"
            /\ \E q \in LiveBatches, k \in Counts : IVF_search_similar(q, k)
    \/ pc = "start"
            /\ \E q \in LiveBatches, k \in 0..MaxCount, fails \in BOOLEAN :
                    ClickHouseRepository_search_similar_vectors(q, k, fails)

SpecLive == Init /\ [][NextLive]_vars

\* ------------------------------------------------ the benchmark harness
\* most repetitions typed in; most calls memory_usage makes of one method
MaxRuns == 2
MaxCalls == 2

RECURSIVE Sum(_)
Sum(s) == IF s = <<>> THEN 0 ELSE s[1] + Sum(Tail(s))
\* a mean that forgets the first sample: sum(samples[1:]) / len(samples)
AverageWithoutFirst(samples) == (Sum(Tail(samples)) * 100) \div Len(samples)
\* sum(samples) / len(samples), in hundredths rounded down
Average(samples) == (Sum(samples) * 100) \div Len(samples)

\* the line typed at the prompt: a decimal integer or some other text
InputLines == [kind : {"int"}, value : (-1)..MaxRuns] \cup [kind : {"text"}, value : {0}]
\* what one measurement gives: seconds, MiB, and how the method's main ended
Samples == {[time |-> 1, mem |-> 1, completed |-> TRUE],
            [time |-> 2, mem |-> 3, completed |-> FALSE]}

\* lines 1-8: the imports.  search_Faiss_IndexFlatL2 and
\* search_ClickHouse_L2Distance are not files of the repository: the import
\* succeeds only where they are supplied
Bench_import(resolves) ==
    /\ bench.pc = "import"
    /\ bench' = IF resolves THEN [bench EXCEPT !.pc = "input"]
                 ELSE [bench EXCEPT !.pc = "crashed", !.error = "ModuleNotFoundError"]
    /\ UNCHANGED <<searchVars, dbVars, file_input, catalog, manager, restVars>>

\* n_runs = int(input(...)), the empty lists, and the first test of the loop
Bench_input(line) ==
    /\ bench.pc = "input"
    /\ bench' =
        IF line.kind = "text"
        THEN [bench EXCEPT !.pc = "crashed", !.error = "ValueError"]
        ELSE [bench EXCEPT !.n_runs = line.value, !.method = 1,
                           !.pc = IF line.value >= 1 THEN "loop" ELSE "average"]
    /\ UNCHANGED <<searchVars, dbVars, file_input, catalog, manager, restVars>>

\* measure_memory_and_time: start_time is read and memory_usage calls the method
Bench_call_method ==
    /\ bench.pc = "loop"
    /\ bench' = [bench EXCEPT !.pc = "measuring", !.running = bench.method, !.calls = 1]
    /\ UNCHANGED <<searchVars, dbVars, file_input, catalog, manager, restVars>>

\* memory_usage got too few readings from a short run: it calls the method again
Bench_call_again ==
    /\ bench.pc = "measuring"
    /\ bench.calls < MaxCalls
    /\ bench' = [bench EXCEPT !.calls = bench.calls + 1]
    /\ UNCHANGED <<searchVars, dbVars, file_input, catalog, manager, restVars>>

\* the method returns for the last time, end_time is read and
\* measure_memory_and_time returns (time, mem); an exception that leaves the
\* method's main (a missing query file) ends the harness
Bench_measure_returns(sample, raises) ==
    /\ bench.pc = "measuring"
    /\ bench' =
        IF raises
        THEN [bench EXCEPT !.pc = "crashed", !.running = 0, !.error = "Exception"]
        ELSE [bench EXCEPT !.pc = "returned", !.running = 0, !.sample = sample]
    /\ UNCHANGED <<searchVars, dbVars, file_input, catalog, manager, restVars>>

\* times_methodN.append(timeN); mems_methodN.append(memN); then the next
\* method, the next repetition or the end of the loop
Bench_append ==
    /\ bench.pc = "returned"
    /\ LET m == bench.method
           last == m = 5
       IN bench' =
            [bench EXCEPT
                !.times[m] = Append(@, bench.sample.time),
                !.mems[m] = Append(@, bench.sample.mem),
                !.completed[m] = Append(@, bench.sample.completed),
                !.sample = NoSample,
                !.method = IF last THEN 1 ELSE m + 1,
                !.run = IF last THEN @ + 1 ELSE @,
                !.pc = IF last /\ bench.run + 1 >= bench.n_runs THEN "average" ELSE "loop"]
    /\ UNCHANGED <<searchVars, dbVars, file_input, catalog, manager, restVars>>

\* lines 68-97: the ten averages, then the prints; the first division by
\* len of an empty list raises ZeroDivisionError
Bench_average ==
    /\ bench.pc = "average"
    /\ bench' =
        IF \E i \in Methods : bench.times[i] = <<>> \/ bench.mems[i] = <<>>
        THEN [bench EXCEPT !.pc = "crashed", !.error = "ZeroDivisionError"]
        ELSE [bench EXCEPT
                !.pc = "done",
                !.avg_time = [i \in Methods |-> Average(bench.times[i])],
                !.avg_mem = [i \in Methods |-> Average(bench.mems[i])]]
    /\ UNCHANGED <<searchVars, dbVars, file_input, catalog, manager, restVars>>

InitBench ==
    /\ vectors_index = <<>>
    /\ pc = "start"
    /\ searcher = NoSearcher
    /\ call = NoCall
    /\ ret = NoRet
    /\ table = <<>>
    /\ data_to_load = <<>>
    /\ upload_pc = "idle"
    /\ insert_ret = NoInsert
    /\ fetched = NoFetch
    /\ bench = NoBench
    /\ file_input = NoFile
    /\ catalog = NoCatalog
    /\ manager = NoManager
    /\ gen = NoGen
    /\ upload_main = NoMain
    /\ batch = NoBatch

NextBench ==
    \/ \E resolves \in BOOLEAN : Bench_import(resolves)
    \/ \E line \in InputLines : Bench_input(line)
    \/ Bench_call_method
    \/ Bench_call_again
    \/ \E sample \in Samples, raises \in BOOLEAN : Bench_measure_returns(sample, raises)
    \/ Bench_append
    \/ Bench_average

SpecBench == InitBench /\ [][NextBench]_vars

\* ------------------------------------------------- ClickHouseManager
\* most check_db calls in a row
MaxChecks == 3
\* --database and --table of connect.py, and one other name of each kind
Database == "db_master"
Table == "element"
DatabaseNames == {Database, "default"}
TableNames == {Table, "other"}
\* the statement that raises in one check_db call, if any
Statements == {"SHOW DATABASES", "SHOW TABLES", "CREATE DATABASE", "CREATE TABLE"}

\* a create_db that creates the database and leaves the table out
create_db_database_only(cat, fail) ==
    IF fail = "CREATE DATABASE"
    THEN [catalog |-> cat, executed |-> <<"CREATE DATABASE">>, failed |-> TRUE]
    ELSE [catalog |-> [cat EXCEPT !.databases = @ \cup {Database}],
          executed |-> <<"CREATE DATABASE">>, failed |-> FALSE]

\* ClickHouseManager.create_db: the two CREATE ... IF NOT EXISTS statements;
\* an exception of either is logged, and the first one skips the second.
\* Gives the catalog after, the statements executed, and whether one raised.
create_db(cat, fail) ==
    IF fail = "CREATE DATABASE"
    THEN [catalog |-> cat, executed |-> <<"CREATE DATABASE">>, failed |-> TRUE]
    ELSE LET withdb == [cat EXCEPT !.databases = @ \cup {Database}]
         IN IF fail = "CREATE TABLE"
            THEN [catalog |-> withdb, executed |-> <<"CREATE DATABASE", "CREATE TABLE">>,
                  failed |-> TRUE]
            ELSE [catalog |-> [withdb EXCEPT !.tables = @ \cup {Table}],
                  executed |-> <<"CREATE DATABASE", "CREATE TABLE">>, failed |-> FALSE]

\* ClickHouseManager.check_db: the value returned, with what it did
check_db(cat, fail) ==
    IF fail = "SHOW DATABASES"
    THEN [returned |-> "False", catalog |-> cat, executed |-> <<"SHOW DATABASES">>,
          failed |-> TRUE]
    ELSE IF Database \notin cat.databases
    THEN LET c == create_db(cat, fail)
         IN [returned |-> "False", catalog |-> c.catalog,
             executed |-> <<"SHOW DATABASES">> \o c.executed, failed |-> c.failed]
    ELSE IF fail = "SHOW TABLES"
    THEN [returned |-> "False", catalog |-> cat,
          executed |-> <<"SHOW DATABASES", "SHOW TABLES">>, failed |-> TRUE]
    ELSE IF Table \notin cat.tables
    THEN LET c == create_db(cat, fail)
         IN [returned |-> "False", catalog |-> c.catalog,
             executed |-> <<"SHOW DATABASES", "SHOW TABLES">> \o c.executed,
             failed |-> c.failed]
    ELSE [returned |-> "True", catalog |-> cat,
          executed |-> <<"SHOW DATABASES", "SHOW TABLES">>, failed |-> FALSE]

\* manager.check_db(args.table, args.ids, args.vectors)
ClickHouseManager_check_db(fail) ==
    /\ manager.calls < MaxChecks
    /\ LET r == check_db(catalog, fail)
       IN /\ catalog' = r.catalog
          /\ manager' = [calls |-> manager.calls + 1, returned |-> r.returned,
                         executed |-> r.executed, failed |-> r.failed,
                         prev_executed |-> manager.executed,
                         prev_failed |-> manager.failed]
    /\ UNCHANGED <<searchVars, dbVars, bench, file_input, restVars>>

\* the servers check_db may meet: tables only in a database that exists
Catalogs ==
    {c \in [databases : SUBSET DatabaseNames, tables : SUBSET TableNames] :
        Database \notin c.databases => c.tables = {}}

InitManager ==
    /\ vectors_index = <<>>
    /\ pc = "start"
    /\ searcher = NoSearcher
    /\ call = NoCall
    /\ ret = NoRet
    /\ table = <<>>
    /\ data_to_load = <<>>
    /\ upload_pc = "idle"
    /\ insert_ret = NoInsert
    /\ fetched = NoFetch
    /\ bench = NoBench
    /\ file_input = NoFile
    /\ catalog \in Catalogs
    /\ manager = NoManager
    /\ gen = NoGen
    /\ upload_main = NoMain
    /\ batch = NoBatch

NextManager == \E fail \in Statements \cup {"none"} : ClickHouseManager_check_db(fail)

SpecManager == InitManager /\ [][NextManager]_vars

\* the global names of the module upload.py: its imports, its logger, its
\* classes and its functions
UploadNames == {"logging", "argparse", "os", "json", "List", "Tuple", "Client",
                "errors", "logger", "Queries", "FileLoader", "DatabaseUploader",
                "parse_arguments", "main"}

\* upload.main, the whole try block.  connects: Client(...) in the
\* DatabaseUploader constructor succeeds, else the ServerException it raises
\* again is caught by main; a name that is not a global of the module raises
\* NameError, caught by the same except Exception; execute as for insert_data
Upload_main(connects, file, execute) ==
    LET defined == "check_db" \in UploadNames
        reaches_load == connects /\ defined
        data == IF reaches_load THEN load(file) ELSE <<>>
        inserts == reaches_load /\ data # <<>>
    IN  /\ Len(table) + Len(load(file)) <= MaxRows
        /\ file_input' = file
        /\ table' = IF inserts /\ execute = "ok" THEN table \o InsertedRows(data)
                    ELSE table
        /\ upload_main' = [pc |-> "returned",
                           connected |-> connects,
                           error |-> IF ~connects THEN "ServerException"
                                     ELSE IF ~defined THEN "NameError"
                                     ELSE IF inserts /\ execute = "NetworkError"
                                     THEN "NetworkError" ELSE "",
                           loaded |-> reaches_load,
                           data |-> data,
                           insert_called |-> inserts]
        /\ UNCHANGED <<data_to_load, upload_pc, insert_ret, fetched>>
        /\ UNCHANGED searchVars
        /\ UNCHANGED <<bench, catalog, manager, gen, batch>>

NextMain ==
    \E connects \in BOOLEAN, file \in Files,
       execute \in {"ok", "ServerException", "NetworkError"} :
        Upload_main(connects, file, execute)

SpecMain == Init /\ [][NextMain]_vars

\* ------------------------------------------------- VectorGenerator
\* largest count and largest size a generator is made with
MaxGen == 2
MaxSize == 2
\* what uuid.uuid4() may give: few values, so that a draw can repeat
Uuids == {"u1", "u2", "u3"}
\* what np.random.uniform(low, high, size).tolist() may give: size >= 0
\* components, two values each
UniformVectors(size) == [1..size -> {0, 1}]

\* generator = VectorGenerator(low, high, size, count); generator.generate()
\* up to the first test of the for loop
Gen_generate(count, size) ==
    /\ gen.pc = "new"
    /\ gen' = [gen EXCEPT !.count = count, !.size = size,
                          !.pc = IF count >= 1 THEN "uuid" ELSE "done"]
    /\ UNCHANGED <<searchVars, dbVars, bench, file_input, catalog, manager, upload_main, batch>>

\* a draw that takes whatever uuid4 gives
Gen_draw_uuid_unchecked(u) ==
    /\ gen.pc = "uuid"
    /\ gen' = [gen EXCEPT !.id_uuid = u, !.existing_uuids = @ \cup {u}, !.pc = "vector"]
    /\ UNCHANGED <<searchVars, dbVars, bench, file_input, catalog, manager, upload_main, batch>>

\* one pass of the while loop, lines 66-70: a uuid seen before is drawn again
Gen_draw_uuid(u) ==
    /\ gen.pc = "uuid"
    /\ gen' = IF u \in gen.existing_uuids
              THEN [gen EXCEPT !.id_uuid = u]
              ELSE [gen EXCEPT !.id_uuid = u, !.existing_uuids = @ \cup {u},
                               !.pc = "vector"]
    /\ UNCHANGED <<searchVars, dbVars, bench, file_input, catalog, manager, upload_main, batch>>

\* lines 72-73 and the next test of the for loop; a negative size makes
\* np.random.uniform raise ValueError
Gen_append ==
    /\ gen.pc = "vector"
    /\ IF gen.size < 0
       THEN gen' = [gen EXCEPT !.pc = "raised", !.error = "ValueError"]
       ELSE \E vector \in UniformVectors(gen.size) :
                gen' = [gen EXCEPT
                            !.elements = Append(@, [id |-> gen.id_uuid, vector |-> vector]),
                            !.pc = IF Len(gen.elements) + 1 >= gen.count
                                   THEN "done" ELSE "uuid"]
    /\ UNCHANGED <<searchVars, dbVars, bench, file_input, catalog, manager, upload_main, batch>>

NextGen ==
    \/ \E count \in (-1)..MaxGen, size \in (-1)..MaxSize : Gen_generate(count, size)
    \/ \E u \in Uuids : Gen_draw_uuid(u)
    \/ Gen_append

SpecGen == Init /\ [][NextGen]_vars

\* ------------------------- the pushdown searches, one query at a time
\* the strategies that send one query per input vector: search_3.py
\* (L2Distance) and search_ClickHouse_cosineDistance.py
Pushdowns == {"L2Distance", "cosineDistance"}

\* cosineDistance of a zero vector is 1 - 0/0: NaN, which ORDER BY puts
\* after every number
NaN == 999999

RECURSIVE Dot(_, _, _)
Dot(a, b, n) == IF n = 0 THEN 0 ELSE a[n] * b[n] + Dot(a, b, n - 1)

\* cosineDistance(a, b) = 1 - a.b / (|a| |b|), in hundredths
CosineDistance(a, b) ==
    LET na == Dot(a, a, Len(a))
        nb == Dot(b, b, Len(b))
    IN IF na = 0 \/ nb = 0 THEN NaN
       ELSE 100 - ((Dot(a, b, Len(a)) * 10000) \div Sqrt(na * nb))

\* the rows one SEARCH_SIMILAR_cosineDistance query may give back: the
\* min(count, rows) nearest, rows at one distance in any order
CosineResults(rows, q, count) ==
    LET n == Len(rows)
        k == Min(count, n)
        d(p) == CosineDistance(rows[p].vec, q)
        found == {r \in [1..k -> 1..n] :
                    /\ \A i, j \in 1..k : i < j => (r[i] # r[j] /\ d(r[i]) <= d(r[j]))
                    /\ \A p \in (1..n) \ Range(r) : \A i \in 1..k : d(r[i]) <= d(p)}
    IN {[i \in 1..k |-> [id |-> rows[r[i]].id, dist |-> d(r[i])]] : r \in found}

\* what client.execute(query) may return for one strategy
ExecuteResults(strategy, rows, q, count) ==
    IF strategy = "L2Distance" THEN QueryResults(rows, q, count)
    ELSE CosineResults(rows, q, count)

\* search_similar_vectors up to the first test of its for loop: the empty
\* collection is made; with no input vector it is returned at once
Batch_search_similar_vectors(strategy, input_vectors, count) ==
    /\ batch.pc = "idle"
    /\ batch' = [NoBatch EXCEPT !.strategy = strategy,
                                !.input_vectors = input_vectors,
                                !.count = count,
                                !.pc = IF input_vectors = <<>> THEN "returned" ELSE "loop"]
    /\ UNCHANGED <<searchVars, dbVars, bench, file_input, catalog, manager, gen, upload_main>>

\* a loop pass whose except clause returns what was collected so far
Batch_execute_keeping(fails) ==
    /\ batch.pc = "loop"
    /\ LET i == Len(batch.all_results) + 1
           q == batch.input_vectors[i]
       IN IF fails \/ QueryThrows(table, q)
          THEN batch' = [batch EXCEPT !.pc = "returned", !.error = "Exception",
                                      !.value = batch.all_results,
                                      !.discarded = 0]
          ELSE \E r \in ExecuteResults(batch.strategy, table, q, batch.count) :
                LET all == Append(batch.all_results, [index |-> i, result |-> r])
                IN batch' = [batch EXCEPT
                                !.all_results = all,
                                !.seen = Append(@, table),
                                !.pc = IF i = Len(batch.input_vectors)
                                       THEN "returned" ELSE "loop",
                                !.value = IF i = Len(batch.input_vectors)
                                          THEN all ELSE <<>>]
    /\ UNCHANGED <<searchVars, dbVars, bench, file_input, catalog, manager, gen, upload_main>>

\* one pass of the for loop: the query of the next input vector is executed on
\* the table as it is now and its result is kept under the index, from 1;
\* after the last pass the collection is returned.  fails: the server or the
\* driver raises.  search_3.py catches the exception, logs it and returns [];
\* search_ClickHouse_cosineDistance.py has no try: the exception leaves the
\* method.  seen keeps the table each query was answered on.
Batch_execute(fails) ==
    /\ batch.pc = "loop"
    /\ LET i == Len(batch.all_results) + 1
           q == batch.input_vectors[i]
       IN IF fails \/ QueryThrows(table, q)
          THEN batch' = [batch EXCEPT !.pc = IF batch.strategy = "L2Distance"
                                             THEN "returned" ELSE "raised",
                                      !.error = "Exception",
                                      !.value = <<>>,
                                      !.discarded = Len(batch.all_results)]
          ELSE \E r \in ExecuteResults(batch.strategy, table, q, batch.count) :
                LET all == Append(batch.all_results, [index |-> i, result |-> r])
                IN batch' = [batch EXCEPT
                                !.all_results = all,
                                !.seen = Append(@, table),
                                !.pc = IF i = Len(batch.input_vectors)
                                       THEN "returned" ELSE "loop",
                                !.value = IF i = Len(batch.input_vectors)
                                          THEN all ELSE <<>>]
    /\ UNCHANGED <<searchVars, dbVars, bench, file_input, catalog, manager, gen, upload_main>>

\* the query batches of a pushdown call: vectors of length 1 and 2
BatchQueries == {b \in QueryBatches : \A i \in 1..Len(b) : b[i] \in {<<0, 1>>, <<1>>}}

\* the files uploaded beside it: one record each, a zero vector, a vector of
\* length 2 and a vector of length 1
BatchFiles == {f \in LiveFiles :
                <<f.elements[1].id, f.elements[1].vec>>
                    \in {<<"a", <<0, 0>>>>, <<"b", <<0, 1>>>>, <<"a", <<1>>>>}}

\* an upload running beside one batch of pushdown queries
NextBatch ==
    \/ upload_pc \in {"idle", "inserted"} /\ \E file \in BatchFiles : FileLoader_load(file)
    \/ DatabaseUploader_insert_data("ok")
    \/ batch.pc = "idle"
            /\ \E strategy \in Pushdowns, q \in BatchQueries, k \in 0..MaxCount :
                    Batch_search_similar_vectors(strategy, q, k)
    \/ \E fails \in BOOLEAN : Batch_execute(fails)

SpecBatch == Init /\ [][NextBatch]_vars

\* ------------------------------------------------------------ properties
StoreIds == {vectors_index[i].id : i \in 1..Len(vectors_index)}
\* the identifiers of one result list, in order
IdsOf(list) == [i \in 1..Len(list) |-> list[i].id]
BruteDone == pc = "done" /\ call.strategy = "brute"
IVFDone == pc = "done" /\ call.strategy = "ivf"
\* every stored vector and every query of the call has one and the same length
SameDimension ==
    /\ Homogeneous(vectors_index)
    /\ \A i \in 1..Len(call.input_vectors), j \in 1..Len(vectors_index) :
            Len(call.input_vectors[i]) = Len(vectors_index[j].vec)

\* C1: for a non-empty store, queries of the stored dimension and k >= 1, the
\* list the brute-force search_similar returns is sorted by non-decreasing
\* distance and records at equal distance are in ascending identifier order,
\* whatever the order of vectors_index.
C1_SortedTiesByIdentifier ==
    (BruteDone /\ vectors_index # <<>> /\ SameDimension /\ call.count >= 1
        /\ ret.outcome = "returned")
    => \A idx \in DOMAIN ret.value :
         \A i, j \in 1..Len(ret.value[idx]) :
            i < j =>
              /\ ret.value[idx][i].dist <= ret.value[idx][j].dist
              /\ (ret.value[idx][i].dist = ret.value[idx][j].dist
                    => IdRank(ret.value[idx][i].id) < IdRank(ret.value[idx][j].id))

\* C2: whenever the IVFFlat search_similar and the brute-force search_similar
\* both return for one store, query batch and k, they return the same ordered
\* list of identifiers for every query.
C2_IVFFlatEqualsBruteForce ==
    LET b == search_similar(vectors_index, call.input_vectors, call.count)
    IN (IVFDone /\ ret.outcome = "returned" /\ ~b.raised)
        => /\ DOMAIN ret.value = DOMAIN b.value
           /\ \A idx \in DOMAIN ret.value : IdsOf(ret.value[idx]) = IdsOf(b.value[idx])

\* C3: with an empty store every searcher, brute-force or Faiss, finishes
\* without raising and returns no (identifier, distance) pair.
C3_EmptyStoreNoError ==
    (vectors_index = <<>> /\ pc \in {"done", "failed"})
    => /\ ret.outcome = "returned"
       /\ \A idx \in DOMAIN ret.value : ret.value[idx] = <<>>

\* C4: for a non-empty store of n records and k >= 0 the brute-force
\* search_similar returns, for each query, exactly min(k, n) pairs naming
\* distinct stored records (all of them when k >= n), and it raises nothing
\* when the queries have the stored dimension.
C4_BruteForceReturnsMinKN ==
    (BruteDone /\ vectors_index # <<>> /\ call.count >= 0)
    => /\ SameDimension => ret.outcome = "returned"
       /\ ret.outcome = "returned" =>
            /\ DOMAIN ret.value = 0..(Len(call.input_vectors) - 1)
            /\ \A idx \in DOMAIN ret.value :
                LET list == ret.value[idx]
                IN /\ Len(list) = Min(call.count, Len(vectors_index))
                   /\ \A i, j \in 1..Len(list) : i # j => list[i].id # list[j].id
                   /\ Range(IdsOf(list)) \subseteq StoreIds
                   /\ call.count >= Len(vectors_index) => Range(IdsOf(list)) = StoreIds
                   /\ \A i, j \in 1..Len(list) : i < j => list[i].dist <= list[j].dist

\* C4 witness: a k above the store size returned every record of a two-record store
C4_Witness ==
    /\ BruteDone /\ ret.outcome = "returned"
    /\ Len(vectors_index) = 2 /\ call.count > 2
    /\ Len(call.input_vectors) >= 1
    /\ Len(ret.value[0]) = 2

\* C5: the value a search returns holds exactly one result per input query
\* (m results for m queries), also when the store is empty.
C5_OneResultPerQuery ==
    (pc = "done" /\ ret.outcome = "returned")
    => DOMAIN ret.value = 0..(Len(call.input_vectors) - 1)

\* C6: a query whose length differs from the dimension of the stored vectors
\* makes the brute-force search fail; it never yields a ranked result.
C6_DimensionMismatchRaises ==
    (BruteDone /\ vectors_index # <<>> /\ Homogeneous(vectors_index)
        /\ call.count >= 1
        /\ \E i \in 1..Len(call.input_vectors) :
                Len(call.input_vectors[i]) # Len(vectors_index[1].vec))
    => ret.outcome = "raised"

\* C7: no sequence of FileLoader.load and insert_data calls puts a vector of
\* a different length into the table: all rows have vectors of one length.
C7_TableHasOneDimension ==
    \A i, j \in 1..Len(table) : Len(table[i].vec) = Len(table[j].vec)

\* C8: a batch inserted into an empty table and read back with get_vectors
\* gives exactly the inserted (identifier, vector) pairs, as a set.
C8_RoundTrip ==
    (upload_pc = "inserted" /\ insert_ret.outcome = "inserted" /\ insert_ret.into_empty
        /\ fetched.outcome = "ok" /\ fetched.result = table)
    => {<<fetched.value[i].id, fetched.value[i].vec>> : i \in 1..Len(fetched.value)}
         = {<<Str(UUID(data_to_load[i].id)), data_to_load[i].vec>> :
                i \in 1..Len(data_to_load)}

\* C9: an identifier already present is never inserted again: no two rows of
\* the table have the same identifier.
C9_NoDuplicateIdentifier ==
    \A i, j \in 1..Len(table) : i # j => table[i].id # table[j].id

\* C10: building the IVFFlat index with nlist clusters over fewer than nlist
\* vectors fails with an error (faiss's too-few-training-points error when the
\* store is a non-empty matrix, the constructor's ValueError otherwise); the
\* index is never trained and no search is answered from it.
C10_TooFewVectorsNoIndex ==
    (searcher.kind = "ivf" /\ Len(vectors_index) < searcher.nlist)
    => /\ searcher.state \in {"none", "untrained"}
       /\ pc \in {"ivf_untrained", "failed"}
       /\ call.strategy = "none"
       /\ ret.outcome # "returned"
       /\ pc = "failed" =>
            /\ ret.outcome = "raised"
            /\ ret.error = IF vectors_index = <<>> \/ ~Homogeneous(vectors_index)
                           THEN "ValueError" ELSE "RuntimeError"

\* C10 witness: one stored vector, two clusters asked for, training refused
C10_Witness ==
    /\ searcher.kind = "ivf" /\ searcher.nlist = 2 /\ Len(vectors_index) = 1
    /\ pc = "failed" /\ ret.outcome = "raised" /\ ret.error = "RuntimeError"

\* the number of inverted lists index.search scans for one query
ScannedClusters(s) == Min(s.nprobe, Len(s.centroids))

\* C11: an IVFFlat searcher built with the arguments nlist and nprobe scans
\* min(nprobe, nlist) clusters for each query it answers.
C11_ScansMinNprobeNlist ==
    (IVFDone /\ ret.outcome = "returned" /\ call.input_vectors # <<>>)
    => ScannedClusters(searcher) = Min(searcher.nprobe_arg, searcher.nlist)

\* the lifecycle of the clustered index, one step at a time
IVFTransitions ==
    {<<"none", "untrained">>, <<"untrained", "trained">>,
     <<"trained", "populated">>, <<"populated", "ready">>}
\* every stored vector is in exactly one inverted list of the index s
FullyPopulated(s) ==
    /\ s.ntotal = Len(vectors_index)
    /\ Len(s.centroids) = s.nlist
    /\ UNION {s.invlists[c] : c \in DOMAIN s.invlists} = 0..(Len(vectors_index) - 1)
    /\ \A c1, c2 \in DOMAIN s.invlists : c1 # c2 => s.invlists[c1] \cap s.invlists[c2] = {}

\* C12: the IVFFlat index moves Untrained, Trained, Populated, Ready in that
\* order and one stage at a time; nothing is added before training (a trained
\* index is still empty); a search runs only on a Ready index that was trained
\* and holds every stored vector, and leaves it Ready.
C12_LifecycleInOrder ==
    [][/\ (searcher'.kind = "ivf" /\ searcher'.state # searcher.state)
            => <<searcher.state, searcher'.state>> \in IVFTransitions
       /\ (searcher'.kind = "ivf" /\ searcher'.state \in {"untrained", "trained"})
            => (searcher'.ntotal = 0 /\ searcher'.invlists = <<>>)
       /\ (searcher'.kind = "ivf" /\ searcher'.state = "untrained")
            => searcher'.centroids = <<>>
       /\ (searcher'.kind = "ivf" /\ searcher'.state \in {"populated", "ready"})
            => FullyPopulated(searcher')
       /\ (call'.strategy = "ivf" /\ call.strategy # "ivf")
            => /\ searcher.state = "ready"
               /\ FullyPopulated(searcher)
               /\ searcher' = searcher
      ]_vars

\* C12 witness: a search answered by a Ready index over a two-vector store
C12_Witness ==
    /\ IVFDone /\ ret.outcome = "returned"
    /\ searcher.state = "ready" /\ searcher.ntotal = 2 /\ Len(vectors_index) = 2
    /\ searcher.nlist = 2

\* this step is a search_similar call of a Faiss searcher that returns
FaissSearchStep ==
    /\ pc \in {"flat_ready", "ivf_ready"} /\ pc' = "done"
    /\ ret'.outcome = "returned"

\* C13: a Faiss index that held the records of the table when it was built
\* answers a search only while it still holds them: after an insert it is
\* rebuilt before the next search (the searcher has no stale mark, so
\* rebuilding is the only way).
C13_NoSearchOnStaleIndex ==
    [][(FaissSearchStep /\ searcher.built_current)
            => IndexedRecords(searcher) = CurrentRecords]_vars

\* this step is a search call of some strategy
SearchStep == call' # call

\* C14: no search of any strategy (brute force, Faiss flat, IVFFlat, the
\* ClickHouse query) changes the rows of the table or the vectors_index
\* mapping it was given, whatever the query batch and k.
C14_SearchChangesNoRecord ==
    [][SearchStep => (table' = table /\ vectors_index' = vectors_index)]_vars

\* C14 witness: a brute-force search over two fetched records has returned
\* a non-empty list
C14_Witness ==
    /\ BruteDone /\ ret.outcome = "returned"
    /\ Len(table) = 2 /\ Len(vectors_index) = 2
    /\ 0 \in DOMAIN ret.value /\ ret.value[0] # <<>>

\* C15: when the harness finishes with n_runs >= 1, every strategy has
\* exactly n_runs time samples and n_runs peak-memory samples still in its
\* lists, and each reported average is the sum of that strategy's samples
\* divided by n_runs.
C15_SamplesKeptAndAveraged ==
    (bench.pc = "done" /\ bench.n_runs >= 1)
    => \A i \in Methods :
        /\ Len(bench.times[i]) = bench.n_runs
        /\ Len(bench.mems[i]) = bench.n_runs
        /\ bench.avg_time[i] = (Sum(bench.times[i]) * 100) \div bench.n_runs
        /\ bench.avg_mem[i] = (Sum(bench.mems[i]) * 100) \div bench.n_runs

\* C15 witness: two repetitions finished, the first strategy took 1 s then 2 s
C15_Witness ==
    /\ bench.pc = "done" /\ bench.n_runs = 2
    /\ bench.times[1] = <<1, 2>> /\ bench.avg_time[1] = 150
    /\ bench.mems[5] = <<3, 1>> /\ bench.avg_mem[5] = 200

\* C16: the harness runs one strategy at a time, method1 to method5 in that
\* order in every repetition: a strategy is started only when every strategy
\* before it in the repetition has returned and has its sample recorded, and
\* within one repetition each strategy is invoked once and no more.
C16_OneStrategyAtATimeOnce ==
    [][/\ (bench'.running # 0) => bench'.running = bench'.method
       /\ (bench.pc = "loop" /\ bench'.pc = "measuring")
            => /\ bench.running = 0
               /\ \A i \in Methods :
                    /\ Len(bench.times[i]) = Len(bench.mems[i])
                    /\ Len(bench.times[i]) =
                        IF i < bench'.running THEN bench.run + 1 ELSE bench.run
       /\ (bench'.pc = "measuring") => bench'.calls = 1
      ]_vars

\* what get_vectors and search_similar_vectors give back when nothing
\* fails and there is nothing to find: {} for an empty table, [] for an empty batch
EmptyMapping == [value |-> <<>>, is_none |-> FALSE]
EmptyList == Returned(<<>>)

\* C17: a fetch or a search query that fails gives its caller something that
\* cannot be taken for a valid empty result: get_vectors does not return the
\* empty mapping and search_similar_vectors does not return the empty list
\* when an exception occurred.
C17_FailureIsNotAnEmptyResult ==
    /\ fetched.outcome = "error"
        => [value |-> fetched.value, is_none |-> fetched.is_none] # EmptyMapping
    /\ (call.strategy = "clickhouse" /\ ret.error # "")
        => [ret EXCEPT !.error = ""] # EmptyList

\* C18: a search asked for a negative count ends with an error and returns
\* no ranked list, and no list the brute-force search_similar returns is
\* longer than count.
C18_NegativeCountRejected ==
    /\ (pc = "done" /\ call.count < 0) => ret.outcome = "raised"
    /\ (BruteDone /\ ret.outcome = "returned")
        => \A idx \in DOMAIN ret.value : Len(ret.value[idx]) <= call.count

\* the well-formed elements of a file, in file order, as (id, vector) records
RECURSIVE ValidRecords(_)
ValidRecords(elements) ==
    IF elements = <<>> THEN <<>>
    ELSE (IF elements[1].has_id /\ elements[1].has_vector
          THEN <<[id |-> elements[1].id, vec |-> elements[1].vec]>> ELSE <<>>)
            \o ValidRecords(Tail(elements))
\* the file holds an element without "id" or without "vector"
HasInvalidRecord(file) ==
    \E i \in 1..Len(file.elements) :
        ~file.elements[i].has_id \/ ~file.elements[i].has_vector

\* C19: from a file with at least one invalid element FileLoader.load passes
\* on either no record at all or every well-formed record of the file; it
\* never keeps the records before the invalid one and drops the well-formed
\* ones after it.
C19_AllOrNothingOrSkip ==
    (upload_pc = "loaded" /\ file_input.kind = "json" /\ HasInvalidRecord(file_input))
    => \/ data_to_load = <<>>
       \/ data_to_load = ValidRecords(file_input.elements)

\* the manager's database and table both exist
DatabaseAndTableExist == Database \in catalog.databases /\ Table \in catalog.tables

\* C20: check_db returns True only when the database and the table exist
\* after the call, and it does return True when they exist (they were there
\* or the call created them) and no statement of the call failed.
C20_CheckDbReturnsTrueIffPresent ==
    manager.calls >= 1
    => /\ manager.returned = "True" => DatabaseAndTableExist
       /\ (DatabaseAndTableExist /\ ~manager.failed) => manager.returned = "True"


\* C21: generate returns exactly count elements, their ids are pairwise
\* distinct and every vector has exactly size components, for every
\* count >= 0 and size >= 0.
C21_GenerateCountDistinctSize ==
    (gen.pc = "done" /\ gen.count >= 0 /\ gen.size >= 0) =>
        /\ Len(gen.elements) = gen.count
        /\ \A i, j \in 1..Len(gen.elements) :
               gen.elements[i].id = gen.elements[j].id => i = j
        /\ \A i \in 1..Len(gen.elements) :
               /\ DOMAIN gen.elements[i].vector = 1..gen.size
               /\ Cardinality(DOMAIN gen.elements[i].vector) = gen.size

C21_Witness ==
    /\ gen.pc = "done"
    /\ gen.count = MaxGen
    /\ gen.size = MaxSize
    /\ Len(gen.elements) = MaxGen
    /\ gen.id_uuid = "u1"
    /\ gen.elements[1].id = "u2"

\* C22: when the connection succeeds and the input file holds at least one
\* well-formed record that load returns, a finished run of upload.main has
\* called insert_data with all the records load returned.
C22_MainInsertsWhatLoadReturned ==
    (upload_main.pc = "returned" /\ upload_main.connected /\ load(file_input) # <<>>) =>
        /\ upload_main.insert_called
        /\ upload_main.data = load(file_input)

\* C23: every (identifier, distance) pair a Faiss-based search_similar
\* returns names a stored record, its distance is the distance between the
\* query and the vector stored under that identifier, no identifier appears
\* twice in the result of one query, and the result has at most
\* min(count, store size) pairs, also when count exceeds the store size.
C23_FaissPairsAreStoredRecords ==
    (pc = "done" /\ call.strategy \in {"flat", "ivf"} /\ ret.outcome = "returned")
    => \A idx \in DOMAIN ret.value :
         LET list == ret.value[idx]
             q == call.input_vectors[idx + 1]
         IN /\ Len(list) <= Min(call.count, Len(vectors_index))
            /\ \A i, j \in 1..Len(list) : list[i].id = list[j].id => i = j
            /\ \A i \in 1..Len(list) :
                 \E r \in 1..Len(vectors_index) :
                    /\ vectors_index[r].id = list[i].id
                    /\ list[i].dist = euclidean_distance(q, vectors_index[r].vec)

\* the file is missing, has size zero, is not JSON, or is a JSON list from
\* which the loop of load appends nothing
YieldsNoRecords(file) ==
    \/ file.kind \in {"missing", "empty", "badjson"}
    \/ file.kind = "json" /\ file.elements = <<>>
    \/ file.kind = "json" /\ file.elements # <<>>
            /\ (~file.elements[1].has_id \/ ~file.elements[1].has_vector)

C25_SecondCheckDbFindsBoth ==
    /\ (manager.calls >= 1 /\ ~manager.failed) => DatabaseAndTableExist
    /\ (manager.calls >= 2 /\ ~manager.prev_failed /\ ~manager.failed)
            => /\ manager.returned = "True"
               /\ \A i \in 1..Len(manager.executed) :
                    manager.executed[i] \notin {"CREATE DATABASE", "CREATE TABLE"}

\* C25 witness: the first call created database and table, the second
\* returned True
C25_Witness ==
    /\ manager.calls = 2
    /\ ~manager.prev_failed
    /\ manager.prev_executed = <<"SHOW DATABASES", "CREATE DATABASE", "CREATE TABLE">>
    /\ manager.returned = "True"
    /\ manager.executed = <<"SHOW DATABASES", "SHOW TABLES">>

\* C26: search_3's search_similar_vectors returns either one entry per input
\* vector, indexed 1..m in input order, each the answer to its own vector, or
\* the empty list; when the query of any input vector fails, the results
\* collected for the earlier vectors are discarded and nothing is raised.
C26_AllEntriesOrEmptyList ==
    batch.strategy = "L2Distance" =>
        /\ batch.pc # "raised"
        /\ batch.pc = "returned" =>
            /\ batch.error # "" => batch.value = <<>>
            /\ \/ batch.value = <<>>
               \/ /\ Len(batch.value) = Len(batch.input_vectors)
                  /\ \A i \in 1..Len(batch.value) :
                        /\ batch.value[i].index = i
                        /\ batch.value[i].result \in
                              QueryResults(batch.seen[i], batch.input_vectors[i],
                                           batch.count)

\* C26 witness: the query of the second vector failed after the first had
\* been answered with a row, and [] was returned
C26_Witness ==
    /\ batch.strategy = "L2Distance"
    /\ batch.pc = "returned"
    /\ batch.error = "Exception"
    /\ batch.discarded = 1
    /\ batch.seen[1] # <<>>
    /\ batch.count >= 1
    /\ batch.value = <<>>

\* C28: all queries of one batch are answered against one and the same set
\* of stored records, also when an upload's insert_data runs beside the
\* batch: the results of a batch of the strategies that send one query per
\* input vector are the answers to all its queries on one state of the table.
C28_BatchSeesOneStoreState ==
    (batch.pc = "returned" /\ batch.error = "" /\ batch.input_vectors # <<>>) =>
        \E i \in 1..Len(batch.seen) :
            \A j \in 1..Len(batch.value) :
                batch.value[j].result \in
                    ExecuteResults(batch.strategy, batch.seen[i],
                                   batch.input_vectors[j], batch.count)

\* C27: every (time, memory) sample the harness has recorded, and so every
\* sample it averages, comes from a run whose main completed its search; a
\* run whose main hit a connection, fetch or search error is not a sample.
C27_SamplesAreCompletedRuns ==
    \A m \in Methods :
        /\ Len(bench.completed[m]) = Len(bench.times[m])
        /\ \A i \in 1..Len(bench.completed[m]) : bench.completed[m][i]

\* C29: the harness never averages an empty sample list: for every integer
\* n_runs it accepts, the lists are non-empty when the averages are computed,
\* and a repetition count below 1 is rejected before any division.
C29_NoAverageOfEmptyList ==
    /\ bench.pc = "average" => \A m \in Methods : bench.times[m] # <<>> /\ bench.mems[m] # <<>>
    /\ bench.error # "ZeroDivisionError"

====
